---- MODULE Spec2Model ----
(***************************************************************************)
(* pneumonia_classification.py: the dataset loader load_images and the     *)
(* single-run experiment main (SVM path, then CNN path).                   *)
(*                                                                         *)
(* A directory of the chest_xray tree is the sequence of its entries in    *)
(* the order listdir returns them; an entry's name is its position.  A     *)
(* decoded image is its source path and its height and width: the source   *)
(* path stands for the pixel content.                                      *)
(***************************************************************************)
EXTENDS Naturals, Integers, Sequences, FiniteSets, TLC

VARIABLES
    fs,          \* the chest_xray directory tree: directory path -> entries
    path_dict,   \* the module-level lookup table
    stdout,      \* what the process has printed or shown, in order
    hist,        \* the calls of load_images made by a caller: subset, tree, result
    edits,       \* how many times the tree was changed between calls
    pc,          \* main: the step to run next
    started,     \* main: the steps begun so far, in order
    failedAt,    \* main: the step that raised, "" while none has
    X_train, y_train, X_test, y_test,
    test_ret,    \* main: what load_images(subset='test') returned
    X_train_svm, X_test_svm,
    clf,         \* the SVM: what it was fitted on
    train_ds, val_ds,
    model,       \* the CNN: what it was fitted on
    outputs,     \* what model.predict returned for the test images
    predictions, \* the predictions last computed (line 64, then line 169)
    scores       \* the evaluations made: classifier, metric, images, labels

mainVars == <<pc, started, failedAt, X_train, y_train, X_test, y_test, test_ret,
              X_train_svm, X_test_svm, clf, train_ds, val_ds, model, outputs,
              predictions, scores>>
vars == <<fs, path_dict, stdout, hist, edits, pc, started, failedAt, X_train,
          y_train, X_test, y_test, test_ret, X_train_svm, X_test_svm, clf,
          train_ds, val_ds, model, outputs, predictions, scores>>

(***************************************************************************)
(* Bounds of the model.                                                    *)
(***************************************************************************)
MaxEntries == 2
MaxCalls == 2
MaxEdits == 1

(***************************************************************************)
(* The path table and the tree.                                            *)
(***************************************************************************)
PathDict ==
    [train      |-> [normal |-> "chest_xray/train/NORMAL/",
                     pneumonia |-> "chest_xray/train/PNEUMONIA/"],
     test       |-> [normal |-> "chest_xray/test/NORMAL/",
                     pneumonia |-> "chest_xray/test/PNEUMONIA/"],
     validation |-> [normal |-> "chest_xray/val/NORMAL/",
                     pneumonia |-> "chest_xray/val/PNEUMONIA/"]]

Splits == DOMAIN PathDict

\* The names a caller may pass: the three keys and the name of the validation directory, which is no key.
Subsets == Splits \cup {"val"}

Dirs == UNION {{PathDict[s].normal, PathDict[s].pneumonia} : s \in Splits}

\* The target size both cv.resize calls pass, as (width, height).
dsize == <<150, 150>>

\* Resolutions of the files on disk, as (height, width).
SourceShapes == {<<dsize[2], dsize[1]>>, <<dsize[2] + 50, dsize[1] - 50>>}

ImageFile(shape) == [kind |-> "file", ok |-> TRUE, h |-> shape[1], w |-> shape[2]]
BadFile == [kind |-> "file", ok |-> FALSE, h |-> 0, w |-> 0]
SubDir == [kind |-> "dir", ok |-> FALSE, h |-> 0, w |-> 0]

Entries == {ImageFile(s) : s \in SourceShapes} \cup {BadFile, SubDir}

SeqsUpTo(S, n) == UNION {[1..k -> S] : k \in 0..n}

Listings == SeqsUpTo(Entries, MaxEntries)

\* What every directory holds unless a scenario says otherwise.
BaseListing == <<ImageFile(<<dsize[2] + 50, dsize[1] - 50>>)>>

(***************************************************************************)
(* os.listdir, os.path.join, os.path.isfile, cv.imread, cv.resize.         *)
(***************************************************************************)
listdir(tree, path) == [i \in 1..Len(tree[path]) |-> i]

join(path, name) == <<path, name>>

isfile_any(tree, p) == TRUE

isfile(tree, p) == tree[p[1]][p[2]].kind = "file"

NoImage == [src |-> <<"", 0>>, h |-> 0, w |-> 0]

\* cv.imread gives None (here NoImage) for a file it cannot read or decode.
imread(tree, p) ==
    LET e == tree[p[1]][p[2]]
    IN  IF e.kind = "file" /\ e.ok THEN [src |-> p, h |-> e.h, w |-> e.w]
        ELSE NoImage

\* cv.resize(img, (width, height)); it raises on None, which the caller tests.
resize(img, size) == [img EXCEPT !.h = size[2], !.w = size[1]]

(***************************************************************************)
(* numpy: the array a list of images converts to, and np.concatenate.      *)
(***************************************************************************)
asarray(images) ==
    IF images = <<>> THEN [shape |-> <<0>>, data |-> <<>>]
    ELSE [shape |-> <<Len(images), images[1].h, images[1].w>>, data |-> images]

CanConcatenate(a, b) ==
    /\ Len(a.shape) = Len(b.shape)
    /\ Tail(a.shape) = Tail(b.shape)

concatenate(a, b) ==
    [shape |-> <<a.shape[1] + b.shape[1]>> \o Tail(a.shape),
     data  |-> a.data \o b.data]

NoArray == [shape |-> <<>>, data |-> <<>>]

Repeat(x, n) == [i \in 1..n |-> x]

(***************************************************************************)
(* load_images.                                                            *)
(***************************************************************************)
Raise(error, listed, read) ==
    [status |-> error, images |-> NoArray, labels |-> <<>>,
     listed |-> listed, read |-> read]

\* The two for loops: decode and resize each file in turn; the first file
\* that does not decode makes cv.resize raise, which ends the loop.
RECURSIVE DecodeLoopSkip(_, _, _)
DecodeLoopSkip(tree, path, files) ==
    IF files = <<>> THEN [ok |-> TRUE, images |-> <<>>, read |-> <<>>]
    ELSE LET p == join(path, Head(files))
             image == imread(tree, p)
             rest == DecodeLoopSkip(tree, path, Tail(files))
         IN  [ok |-> TRUE,
              images |-> IF image = NoImage THEN rest.images
                         ELSE <<resize(image, dsize)>> \o rest.images,
              read |-> <<p>> \o rest.read]

RECURSIVE DecodeLoop(_, _, _)
DecodeLoop(tree, path, files) ==
    IF files = <<>> THEN [ok |-> TRUE, images |-> <<>>, read |-> <<>>]
    ELSE LET p == join(path, Head(files))
             image == imread(tree, p)
         IN  IF image = NoImage
             THEN [ok |-> FALSE, images |-> <<>>, read |-> <<p>>]
             ELSE LET rest == DecodeLoop(tree, path, Tail(files))
                  IN  [ok |-> rest.ok,
                       images |-> IF rest.ok
                                  THEN <<resize(image, dsize)>> \o rest.images
                                  ELSE <<>>,
                       read |-> <<p>> \o rest.read]

RegularFiles(tree, path) ==
    SelectSeq(listdir(tree, path), LAMBDA image : isfile(tree, join(path, image)))

LabelsSwapped(pos_images, neg_images) ==
    Repeat(0, Len(pos_images)) \o Repeat(1, Len(neg_images))

Labels(pos_images, neg_images) ==
    Repeat(1, Len(pos_images)) \o Repeat(0, Len(neg_images))

load_body(tree, pd, subset) ==
    LET pos_path == pd[subset].pneumonia
        neg_path == pd[subset].normal
        pos_files == RegularFiles(tree, pos_path)
        neg_files == RegularFiles(tree, neg_path)
        listed == <<pos_path, neg_path>>
        pos == DecodeLoop(tree, pd[subset].pneumonia, pos_files)
    IN  IF ~pos.ok THEN Raise("cv2.error", listed, pos.read)
        ELSE
        LET neg == DecodeLoop(tree, pd[subset].normal, neg_files)
            read == pos.read \o neg.read
        IN  IF ~neg.ok THEN Raise("cv2.error", listed, read)
            ELSE
            LET labels == Labels(pos.images, neg.images)
                a == asarray(pos.images)
                b == asarray(neg.images)
            IN  IF ~CanConcatenate(a, b) THEN Raise("ValueError", listed, read)
                ELSE [status |-> "ok", images |-> concatenate(a, b),
                      labels |-> labels, listed |-> listed, read |-> read]

load_images_get(tree, pd, subset) ==
    IF subset \notin DOMAIN pd
    THEN [status |-> "ok", images |-> asarray(<<>>), labels |-> <<>>,
          listed |-> <<>>, read |-> <<>>]
    ELSE load_body(tree, pd, subset)

load_images_cached(tree, pd, subset) ==
    IF \E i \in 1..Len(hist) : hist[i].subset = subset
    THEN hist[CHOOSE i \in 1..Len(hist) : hist[i].subset = subset].ret
    ELSE IF subset \notin DOMAIN pd THEN Raise("KeyError", <<>>, <<>>)
         ELSE load_body(tree, pd, subset)

load_images(tree, pd, subset) ==
    IF subset \notin DOMAIN pd THEN Raise("KeyError", <<>>, <<>>)
    ELSE load_body(tree, pd, subset)

Loading(subset) == <<"Loading data, subset =", subset>>

(***************************************************************************)
(* main: reshape, the two image pipelines, the threshold, and the order of *)
(* the steps.  main holds no try: an exception raised in a step leaves     *)
(* main and ends the process.                                              *)
(***************************************************************************)
StepOrder == <<"load_train", "load_test", "svm_fit", "svm_predict",
               "cnn_pipeline", "cnn_fit", "plot_curves", "cnn_eval">>

StepAfter(step) ==
    LET k == CHOOSE i \in 1..Len(StepOrder) : StepOrder[i] = step
    IN  IF k = Len(StepOrder) THEN "done" ELSE StepOrder[k + 1]

Begin(step) ==
    /\ pc = step
    /\ started' = Append(started, step)

Advance(step) ==
    /\ pc' = StepAfter(step)
    /\ failedAt' = failedAt

FailAndGoOn(step) ==
    /\ pc' = StepAfter(step)
    /\ failedAt' = step

Fail(step) ==
    /\ pc' = "aborted"
    /\ failedAt' = step

\* n_samples, nx, ny = X.shape raises unless the shape has three parts.
CanUnpack(X) == Len(X.shape) = 3

reshape(X) == [shape |-> <<X.shape[1], X.shape[2] * X.shape[3]>>, data |-> X.data]

expand_dims(X) == [shape |-> X.shape \o <<1>>, data |-> X.data]

image_dataset_from_directory(directory, subset) ==
    [directory |-> directory, subset |-> subset, built |-> TRUE]

\* The class directories of a pipeline's directory, and the files it draws.
ClassDirs(directory) == {directory \o "/NORMAL/", directory \o "/PNEUMONIA/"}

DatasetFiles(tree, ds) ==
    UNION {{<<d, k>> : k \in {i \in 1..Len(tree[d]) : tree[d][i].kind = "file"}} :
              d \in ClassDirs(ds.directory) \cap DOMAIN tree}

train_dataset == image_dataset_from_directory("chest_xray/train", "training")

val_dataset_test == image_dataset_from_directory("chest_xray/test", "validation")

val_dataset == image_dataset_from_directory("chest_xray/train", "validation")

\* The sigmoid outputs, in tenths: 5 is 0.5.
Threshold == 5

\* Outputs below, at and above the threshold.
OutputLevels == {Threshold - 1, Threshold, Threshold + 1}

threshold_ge(out) == [i \in 1..Len(out) |-> IF out[i] >= Threshold THEN 1 ELSE 0]

\* (model.predict(X_test) > 0.5).astype('int32')
threshold(out) == [i \in 1..Len(out) |-> IF out[i] > Threshold THEN 1 ELSE 0]

(***************************************************************************)
(* main before it has run a step.                                          *)
(***************************************************************************)
NoClassifier == [fitted |-> FALSE, X |-> NoArray, y |-> <<>>]
NoDataset == [directory |-> "", subset |-> "", built |-> FALSE]
NoModel == [fitted |-> FALSE, train |-> NoDataset, validation |-> NoDataset]

MainInit ==
    /\ pc = "load_train"
    /\ started = <<>>
    /\ failedAt = ""
    /\ X_train = NoArray /\ y_train = <<>>
    /\ X_test = NoArray /\ y_test = <<>>
    /\ test_ret = Raise("", <<>>, <<>>)
    /\ X_train_svm = NoArray /\ X_test_svm = NoArray
    /\ clf = NoClassifier
    /\ train_ds = NoDataset /\ val_ds = NoDataset
    /\ model = NoModel
    /\ outputs = <<>>
    /\ predictions = <<>>
    /\ scores = <<>>

(***************************************************************************)
(* A caller of load_images: one call on a tree in which one split's two    *)
(* directories hold any listings (SpecLoad), or several calls with the     *)
(* tree changed between them (SpecCalls).                                  *)
(***************************************************************************)
FocusTree(s, p, n) ==
    [d \in Dirs |-> IF d = PathDict[s].pneumonia THEN p
                    ELSE IF d = PathDict[s].normal THEN n
                    ELSE BaseListing]

InitLoad ==
    /\ \E s \in Splits, p \in Listings, n \in Listings : fs = FocusTree(s, p, n)
    /\ path_dict = PathDict
    /\ stdout = <<>>
    /\ hist = <<>>
    /\ edits = 0
    /\ MainInit

InitCalls ==
    /\ fs = [d \in Dirs |-> BaseListing]
    /\ path_dict = PathDict
    /\ stdout = <<>>
    /\ hist = <<>>
    /\ edits = 0
    /\ MainInit

\* One call: line 24 prints, then the body runs on the tree as it is now.
Call(subset) ==
    /\ stdout' = Append(stdout, Loading(subset))
    /\ hist' = Append(hist, [subset |-> subset, tree |-> fs,
                             ret |-> load_images(fs, path_dict, subset)])
    /\ UNCHANGED <<fs, path_dict, edits>>
    /\ UNCHANGED mainVars

CallOnce ==
    /\ hist = <<>>
    /\ \E subset \in Subsets : Call(subset)

CallAgain ==
    /\ Len(hist) < MaxCalls
    /\ \E subset \in Subsets : Call(subset)

\* Someone else adds an entry at the end of a directory.
AddEntry ==
    /\ edits < MaxEdits
    /\ \E d \in Dirs, e \in Entries :
          /\ Len(fs[d]) < MaxEntries
          /\ fs' = [fs EXCEPT ![d] = Append(@, e)]
    /\ edits' = edits + 1
    /\ UNCHANGED <<path_dict, stdout, hist>>
    /\ UNCHANGED mainVars

\* Someone else removes the last entry of a directory.
RemoveEntry ==
    /\ edits < MaxEdits
    /\ \E d \in Dirs :
          /\ fs[d] # <<>>
          /\ fs' = [fs EXCEPT ![d] = SubSeq(@, 1, Len(@) - 1)]
    /\ edits' = edits + 1
    /\ UNCHANGED <<path_dict, stdout, hist>>
    /\ UNCHANGED mainVars

NextLoad == CallOnce

NextCalls == CallAgain \/ AddEntry \/ RemoveEntry

SpecLoad == InitLoad /\ [][NextLoad]_vars

SpecCalls == InitCalls /\ [][NextCalls]_vars

(***************************************************************************)
(* What the claims about load_images speak of.                             *)
(***************************************************************************)
\* The positions of the regular files of a directory.
RegularIn(tree, d) == {k \in 1..Len(tree[d]) : tree[d][k].kind = "file"}

\* The regular files of a split's two directories, as paths.
SplitFiles(tree, s) ==
    {<<PathDict[s].pneumonia, k>> : k \in RegularIn(tree, PathDict[s].pneumonia)}
    \cup {<<PathDict[s].normal, k>> : k \in RegularIn(tree, PathDict[s].normal)}

Decodable(tree, p) == tree[p[1]][p[2]].ok

CountP(c) == Cardinality(RegularIn(c.tree, PathDict[c.subset].pneumonia))
CountN(c) == Cardinality(RegularIn(c.tree, PathDict[c.subset].normal))

CallsMade == {hist[i] : i \in 1..Len(hist)}

Returned(c) == c.ret.status = "ok"

AllDecodable(c) == \A f \in SplitFiles(c.tree, c.subset) : Decodable(c.tree, f)

Sources(c) == {c.ret.images.data[i].src : i \in 1..Len(c.ret.images.data)}

\* C1: for every split and every P >= 0 and N >= 0, a call on directories
\* holding P and N regular files, all decodable, returns P+N images and P+N
\* labels, the first P labels being 1 and the other N being 0.
C1_ReturnsAllFilesLabelled ==
    \A c \in CallsMade :
        (c.subset \in Splits /\ AllDecodable(c)) =>
            /\ Returned(c)
            /\ Len(c.ret.images.data) = CountP(c) + CountN(c)
            /\ c.ret.labels = Repeat(1, CountP(c)) \o Repeat(0, CountN(c))

\* C2: every returned image is 150 high and 150 wide whatever its source
\* resolution, and the returned array of a split with P+N files has shape
\* (P+N, 150, 150), which main unpacks as (n_samples, nx, ny).
C2_ReturnedShape ==
    \A c \in CallsMade :
        Returned(c) =>
            /\ \A i \in 1..Len(c.ret.images.data) :
                  c.ret.images.data[i].h = 150 /\ c.ret.images.data[i].w = 150
            /\ c.ret.images.shape = <<CountP(c) + CountN(c), 150, 150>>

\* C3: a call with a name that is no key of path_dict ends in a lookup
\* error, returns nothing, and has listed no directory and read no file.
C3_UnknownSplitIsKeyError ==
    \A c \in CallsMade :
        c.subset \notin Splits =>
            /\ c.ret.status = "KeyError"
            /\ c.ret.images = NoArray /\ c.ret.labels = <<>>
            /\ c.ret.listed = <<>> /\ c.ret.read = <<>>

C3_Witness ==
    \E c \in CallsMade : c.subset = "val" /\ c.tree[PathDict.validation.normal] # <<>>

\* C4: when a regular file of either directory of the requested split does
\* not decode, the call ends in an error and returns nothing, wherever the
\* file is in the listings.
C4_BadFileIsError ==
    \A c \in CallsMade :
        (c.subset \in Splits /\ ~AllDecodable(c)) =>
            /\ ~Returned(c)
            /\ c.ret.images = NoArray /\ c.ret.labels = <<>>

\* A bad file last in the normal directory, after files that decode.
C4_Witness ==
    \E c \in CallsMade :
        /\ c.subset \in Splits
        /\ LET pos == c.tree[PathDict[c.subset].pneumonia]
               neg == c.tree[PathDict[c.subset].normal]
           IN  /\ Len(pos) >= 1 /\ \A k \in 1..Len(pos) : pos[k].ok
               /\ Len(neg) = 2 /\ neg[1].ok /\ neg[2] = BadFile
        /\ c.ret.status = "cv2.error"

\* C5: the returned images and labels are aligned: labels[i] is 1 exactly
\* when images[i] was decoded from a file of the PNEUMONIA directory, 0
\* exactly when from the NORMAL directory, and every pneumonia image comes
\* before every normal image.
C5_LabelsAligned ==
    \A c \in CallsMade :
        Returned(c) =>
            LET data == c.ret.images.data
                labels == c.ret.labels
            IN  /\ Len(labels) = Len(data)
                /\ \A i \in 1..Len(data) :
                      /\ labels[i] = 1 <=> data[i].src[1] = PathDict[c.subset].pneumonia
                      /\ labels[i] = 0 <=> data[i].src[1] = PathDict[c.subset].normal
                /\ \A i, j \in 1..Len(data) :
                      (data[i].src[1] = PathDict[c.subset].pneumonia
                       /\ data[j].src[1] = PathDict[c.subset].normal) => i < j

C5_Witness ==
    \E c \in CallsMade :
        /\ Returned(c)
        /\ CountP(c) = 2 /\ CountN(c) >= 1
        /\ c.ret.labels[1] = 1 /\ c.ret.labels[Len(c.ret.labels)] = 0

\* C6: a call uses only the regular files of the two directories of the
\* requested split: what it reads are regular files of these directories,
\* and what it returns holds one image and one label for each of them and
\* nothing else.
C6_OnlyRegularFilesOfSplit ==
    \A c \in CallsMade :
        c.subset \in Splits =>
            /\ \A k \in 1..Len(c.ret.read) :
                  c.ret.read[k] \in SplitFiles(c.tree, c.subset)
            /\ \A k \in 1..Len(c.ret.listed) :
                  c.ret.listed[k] \in {PathDict[c.subset].pneumonia,
                                       PathDict[c.subset].normal}
            /\ Returned(c) =>
                  /\ Sources(c) = SplitFiles(c.tree, c.subset)
                  /\ Len(c.ret.images.data) = Cardinality(SplitFiles(c.tree, c.subset))
                  /\ Len(c.ret.labels) = Cardinality(SplitFiles(c.tree, c.subset))

\* A returned call on directories that hold a subdirectory, while the
\* directories of the other splits hold files.
C6_Witness ==
    \E c \in CallsMade :
        /\ Returned(c)
        /\ \E k \in 1..Len(c.tree[PathDict[c.subset].pneumonia]) :
              c.tree[PathDict[c.subset].pneumonia][k] = SubDir
        /\ \A s \in Splits \ {c.subset} : SplitFiles(c.tree, s) # {}

\* C8: a call, returning or raising, leaves path_dict and the tree as they
\* were; every call lists both directories and decodes the files again, so
\* its result is that of the tree at the time of the call: two calls for the
\* same split on the same tree give equal results, and a call after a
\* change reads and returns the files the tree holds then.
C8_CallsAgree ==
    /\ \A c, d \in CallsMade :
          (c.subset = d.subset /\ c.tree = d.tree) => c.ret = d.ret
    /\ \A c \in CallsMade :
          c.subset \in Splits =>
              /\ c.ret.listed = <<PathDict[c.subset].pneumonia,
                                  PathDict[c.subset].normal>>
              /\ AllDecodable(c) =>
                    {c.ret.read[k] : k \in 1..Len(c.ret.read)}
                        = SplitFiles(c.tree, c.subset)
              /\ Returned(c) => Sources(c) = SplitFiles(c.tree, c.subset)

\* C8 (continued): the frame of a call, with the agreement of the results.
C8_NoSideEffectNoCache ==
    /\ []C8_CallsAgree
    /\ [][hist' # hist => (fs' = fs /\ path_dict' = path_dict)]_vars

\* Two calls for one split with the tree changed between them, the second
\* returning what the tree holds after the change.
C8_Witness ==
    \E i, j \in 1..Len(hist) :
        /\ i < j
        /\ hist[i].subset = hist[j].subset
        /\ Returned(hist[i]) /\ Returned(hist[j])
        /\ SplitFiles(hist[i].tree, hist[i].subset)
              # SplitFiles(hist[j].tree, hist[j].subset)
        /\ hist[i].ret # hist[j].ret

(***************************************************************************)
(* main.                                                                   *)
(***************************************************************************)
\* The files on disk in a run of main: ones that decode and ones that do not.
MainEntries == {BaseListing[1], BadFile}

MainListings == SeqsUpTo(MainEntries, MaxEntries)

Init ==
    /\ \E tp, tn, sp, sn \in MainListings :
          fs = [d \in Dirs |->
                   IF d = PathDict.train.pneumonia THEN tp
                   ELSE IF d = PathDict.train.normal THEN tn
                   ELSE IF d = PathDict.test.pneumonia THEN sp
                   ELSE IF d = PathDict.test.normal THEN sn
                   ELSE BaseListing]
    /\ path_dict = PathDict
    /\ stdout = <<>>
    /\ hist = <<>>
    /\ edits = 0
    /\ MainInit

\* Line 52.
LoadTrain ==
    /\ Begin("load_train")
    /\ stdout' = Append(stdout, Loading("train"))
    /\ LET ret == load_images(fs, path_dict, "train")
       IN  IF ret.status = "ok"
           THEN /\ X_train' = ret.images /\ y_train' = ret.labels
                /\ Advance("load_train")
           ELSE /\ UNCHANGED <<X_train, y_train>>
                /\ Fail("load_train")
    /\ UNCHANGED <<fs, path_dict, hist, edits, X_test, y_test, test_ret,
                   X_train_svm, X_test_svm, clf, train_ds, val_ds, model,
                   outputs, predictions, scores>>

\* Line 53.
LoadTest ==
    /\ Begin("load_test")
    /\ stdout' = Append(stdout, Loading("test"))
    /\ LET ret == load_images(fs, path_dict, "test")
       IN  /\ test_ret' = ret
           /\ IF ret.status = "ok"
              THEN /\ X_test' = ret.images /\ y_test' = ret.labels
                   /\ Advance("load_test")
              ELSE /\ UNCHANGED <<X_test, y_test>>
                   /\ Fail("load_test")
    /\ UNCHANGED <<fs, path_dict, hist, edits, X_train, y_train,
                   X_train_svm, X_test_svm, clf, train_ds, val_ds, model,
                   outputs, predictions, scores>>

\* Lines 56-62: unpack and reshape both arrays, then fit the SVM.
SvmFit ==
    /\ Begin("svm_fit")
    /\ stdout' = Append(stdout, <<"Training SVM classifier...">>)
    /\ IF ~CanUnpack(X_train)
       THEN /\ Fail("svm_fit")
            /\ UNCHANGED <<X_train_svm, X_test_svm, clf>>
       ELSE /\ X_train_svm' = reshape(X_train)
            /\ IF ~CanUnpack(X_test)
               THEN /\ Fail("svm_fit")
                    /\ UNCHANGED <<X_test_svm, clf>>
               ELSE /\ X_test_svm' = reshape(X_test)
                    /\ \E raised \in BOOLEAN :
                          IF raised
                          THEN Fail("svm_fit") /\ UNCHANGED clf
                          ELSE /\ clf' = [fitted |-> TRUE, X |-> X_train_svm',
                                          y |-> y_train]
                               /\ Advance("svm_fit")
    /\ UNCHANGED <<fs, path_dict, hist, edits, X_train, y_train, X_test, y_test,
                   test_ret, train_ds, val_ds, model, outputs, predictions, scores>>

\* Lines 63-71: predict, print the accuracy, plot the confusion matrix.
SvmPredict ==
    /\ Begin("svm_predict")
    /\ \E raised \in BOOLEAN :
          IF raised
          THEN /\ stdout' = Append(stdout, <<"Estimating classifier performance...">>)
               /\ Fail("svm_predict")
               /\ UNCHANGED <<predictions, scores>>
          ELSE /\ \E p \in [1..X_test_svm.shape[1] -> {0, 1}] : predictions' = p
               /\ stdout' = stdout \o <<<<"Estimating classifier performance...">>,
                                        <<"SVM score:">>,
                                        <<"Plotting confusion matrix...">>,
                                        <<"Confusion matrix (SVM)">>>>
               /\ scores' = scores \o
                      <<[classifier |-> "svm", metric |-> "accuracy_score",
                         X |-> X_test_svm.data, y |-> y_test],
                        [classifier |-> "svm", metric |-> "plot_confusion_matrix",
                         X |-> X_test_svm.data, y |-> y_test]>>
               /\ Advance("svm_predict")
    /\ UNCHANGED <<fs, path_dict, hist, edits, X_train, y_train, X_test, y_test,
                   test_ret, X_train_svm, X_test_svm, clf, train_ds, val_ds,
                   model, outputs>>

\* Lines 75-137: the two pipelines, then the network is built and compiled.
CnnPipeline ==
    /\ Begin("cnn_pipeline")
    /\ \E raised \in BOOLEAN :
          IF raised
          THEN /\ Fail("cnn_pipeline")
               /\ UNCHANGED <<train_ds, val_ds, stdout>>
          ELSE /\ train_ds' = train_dataset
               /\ val_ds' = val_dataset
               /\ stdout' = Append(stdout, <<"model.summary">>)
               /\ Advance("cnn_pipeline")
    /\ UNCHANGED <<fs, path_dict, hist, edits, X_train, y_train, X_test, y_test,
                   test_ret, X_train_svm, X_test_svm, clf, model, outputs,
                   predictions, scores>>

\* Lines 139-143.
CnnFit ==
    /\ Begin("cnn_fit")
    /\ \E raised \in BOOLEAN :
          IF raised
          THEN Fail("cnn_fit") /\ UNCHANGED <<model, stdout>>
          ELSE /\ model' = [fitted |-> TRUE, train |-> train_ds,
                            validation |-> val_ds]
               /\ stdout' = Append(stdout, <<"epochs">>)
               /\ Advance("cnn_fit")
    /\ UNCHANGED <<fs, path_dict, hist, edits, X_train, y_train, X_test, y_test,
                   test_ret, X_train_svm, X_test_svm, clf, train_ds, val_ds,
                   outputs, predictions, scores>>

\* Lines 145-165.
PlotCurves ==
    /\ Begin("plot_curves")
    /\ \E raised \in BOOLEAN :
          IF raised
          THEN Fail("plot_curves") /\ UNCHANGED stdout
          ELSE /\ stdout' = Append(stdout, <<"Training and Validation Accuracy",
                                             "Training and Validation Loss">>)
               /\ Advance("plot_curves")
    /\ UNCHANGED <<fs, path_dict, hist, edits, X_train, y_train, X_test, y_test,
                   test_ret, X_train_svm, X_test_svm, clf, train_ds, val_ds,
                   model, outputs, predictions, scores>>

\* Lines 168-176.
CnnEval ==
    /\ Begin("cnn_eval")
    /\ X_test' = expand_dims(X_test)
    /\ \E raised \in BOOLEAN :
          IF raised
          THEN /\ Fail("cnn_eval")
               /\ UNCHANGED <<outputs, predictions, scores, stdout>>
          ELSE /\ \E o \in [1..X_test'.shape[1] -> OutputLevels] : outputs' = o
               /\ predictions' = threshold(outputs')
               /\ scores' = scores \o
                      <<[classifier |-> "cnn", metric |-> "accuracy_score",
                         X |-> X_test'.data, y |-> y_test],
                        [classifier |-> "cnn", metric |-> "confusion_matrix",
                         X |-> X_test'.data, y |-> y_test],
                        [classifier |-> "cnn", metric |-> "classification_report",
                         X |-> X_test'.data, y |-> y_test]>>
               /\ stdout' = stdout \o <<<<"Classifier score:">>,
                                        <<"Classification report:">>,
                                        <<"heatmap">>>>
               /\ Advance("cnn_eval")
    /\ UNCHANGED <<fs, path_dict, hist, edits, X_train, y_train, y_test,
                   test_ret, X_train_svm, X_test_svm, clf, train_ds, val_ds, model>>

Next ==
    \/ LoadTrain
    \/ LoadTest
    \/ SvmFit
    \/ SvmPredict
    \/ CnnPipeline
    \/ CnnFit
    \/ PlotCurves
    \/ CnnEval

Spec == Init /\ [][Next]_vars

(***************************************************************************)
(* What the claims about main speak of.                                    *)
(***************************************************************************)
IsPrefix(a, b) == Len(a) <= Len(b) /\ a = SubSeq(b, 1, Len(a))

ArraySources(data) == {data[i].src : i \in 1..Len(data)}

TrainFiles == SplitFiles(fs, "train")
TestFiles == SplitFiles(fs, "test")

C7_Order ==
    /\ IsPrefix(started, StepOrder)
    /\ pc = "done" => started = StepOrder

\* C7: the steps run in one fixed order (load train, load test, SVM fit,
\* SVM predict and confusion matrix, CNN pipelines, CNN fit, curves, CNN
\* evaluation), and once a step has failed no later step is begun and
\* nothing more is printed or shown.
C7_FixedOrderAbortOnFailure ==
    /\ []C7_Order
    /\ [][failedAt # "" => (started' = started /\ stdout' = stdout)]_vars

\* The CNN fit failed after the six steps before it ran.
C7_Witness ==
    /\ failedAt = "cnn_fit"
    /\ started = SubSeq(StepOrder, 1, 6)
    /\ pc = "aborted"

\* C9: the SVM and the CNN are fitted only on files of chest_xray/train
\* (both CNN pipelines are built from that directory), no file of
\* chest_xray/test reaches a fit, and every evaluation of either classifier
\* uses the images and labels load_images('test') returned.
C9_TestSetHeldOut ==
    /\ clf.fitted =>
          /\ ArraySources(clf.X.data) \subseteq TrainFiles
          /\ ArraySources(clf.X.data) \cap TestFiles = {}
    /\ model.fitted =>
          /\ model.train.directory = "chest_xray/train"
          /\ model.validation.directory = "chest_xray/train"
          /\ DatasetFiles(fs, model.train) \cup DatasetFiles(fs, model.validation)
                \subseteq TrainFiles
          /\ (DatasetFiles(fs, model.train) \cup DatasetFiles(fs, model.validation))
                \cap TestFiles = {}
    /\ \A k \in 1..Len(scores) :
          /\ scores[k].X = test_ret.images.data
          /\ scores[k].y = test_ret.labels
    /\ pc = "done" => {scores[k].classifier : k \in 1..Len(scores)} = {"svm", "cnn"}

\* A finished run: both classifiers fitted and scored on a test set of files
\* that are not training files.
C9_Witness ==
    /\ pc = "done"
    /\ clf.fitted /\ model.fitted
    /\ Len(scores) = 5
    /\ TestFiles # {} /\ TrainFiles # {}
    /\ DatasetFiles(fs, model.validation) # {}

\* C10: in the CNN evaluation every test image gets one prediction, 1 when
\* the network's output for it is above 0.5 and 0 otherwise, so 0 at exactly
\* 0.5; there are as many predictions as test labels.
C10_StrictThreshold ==
    pc = "done" =>
        /\ Len(predictions) = Len(test_ret.images.data)
        /\ Len(predictions) = Len(y_test)
        /\ Len(outputs) = Len(predictions)
        /\ \A i \in 1..Len(predictions) :
              /\ outputs[i] > Threshold => predictions[i] = 1
              /\ outputs[i] <= Threshold => predictions[i] = 0

\* A finished run with an output of exactly 0.5 and one above it.
C10_Witness ==
    /\ pc = "done"
    /\ \E i, j \in 1..Len(predictions) :
          /\ outputs[i] = Threshold /\ predictions[i] = 0
          /\ outputs[j] > Threshold /\ predictions[j] = 1

====
